---------------------------- MODULE Spec2Model ----------------------------
(***************************************************************************)
(* SAGE backend (src/backend/backend5.py): the Flask handlers over the     *)
(* three ChromaDB collections, the Socket.IO notifications they emit, and  *)
(* the helpers and pages of the Streamlit frontend                         *)
(* (src/frontend/sage_utils.py, src/s_app.py) that the properties below    *)
(* refer to.                                                               *)
(*                                                                         *)
(* Texts are sequences of tokens <<kind, text>>; JSON values are tagged    *)
(* records; a dict is a sequence of [k, v] members in insertion order.     *)
(***************************************************************************)
EXTENDS Integers, Sequences, FiniteSets, TLC

VARIABLES survey_collection, response_collection,
          individual_analysis_collection, emitted, now, last, added,
          connected, received, threads, page

vars == <<survey_collection, response_collection,
          individual_analysis_collection, emitted, now, last, added,
          connected, received, threads, page>>

(***************************************************************************)
(* Bounds of the model.                                                    *)
(***************************************************************************)
\* uuid4() draws from 1..MaxId; a collection holds at most MaxId records.
MaxId == 2
\* int(time.time()) ranges over 0..MaxTime.
MaxTime == 1
\* The threads of the server: it starts one for each request.
MaxThreads == 2

IdPool == 1..MaxId
\* Identities a request may carry in its URL: every identity uuid4() can
\* produce, and 0, which uuid4() never produces ("nonexistent-id").
UrlIds == 0..MaxId

(***************************************************************************)
(* JSON values.                                                            *)
(***************************************************************************)
None == [t |-> "none"]
JStr(s) == [t |-> "str", s |-> s]
JList(l) == [t |-> "list", l |-> l]
JObj(m) == [t |-> "obj", m |-> m]

\* key in d
HasKey(d, key) == \E i \in 1..Len(d.m) : d.m[i].k = key

\* d.get(key, default)
DictGet(d, key, default) ==
    IF HasKey(d, key)
    THEN d.m[CHOOSE i \in 1..Len(d.m) : d.m[i].k = key].v
    ELSE default

\* d[key] = value on the member sequence m: an existing key keeps its place.
DictSet(m, key, value) ==
    IF \E i \in 1..Len(m) : m[i].k = key
    THEN [i \in 1..Len(m) |-> IF m[i].k = key THEN [k |-> key, v |-> value] ELSE m[i]]
    ELSE Append(m, [k |-> key, v |-> value])

\* Truthy with only None false, as "x is not None" would test
TruthyNotNone(v) == v.t # "none"

\* Python truthiness of a JSON value (not x is ~Truthy(x)).
Truthy(v) ==
    CASE v.t = "none" -> FALSE
      [] v.t = "str"  -> v.s # ""
      [] v.t = "list" -> v.l # <<>>
      [] v.t = "obj"  -> v.m # <<>>

(***************************************************************************)
(* Tokens of a text.                                                       *)
(***************************************************************************)
LB == <<"{", "">>
RB == <<"}", "">>
LS == <<"[", "">>
RS == <<"]", "">>
FenceOpen == <<"fence_json", "">>
FenceClose == <<"fence", "">>
Key(k) == <<"key", k>>
Str(s) == <<"str", s>>
Prose(s) == <<"txt", s>>

(***************************************************************************)
(* json.dumps                                                              *)
(***************************************************************************)
RECURSIVE json_dumps(_), DumpItems(_), DumpMembers(_)
DumpItems(l) ==
    IF l = <<>> THEN <<>> ELSE json_dumps(Head(l)) \o DumpItems(Tail(l))
DumpMembers(m) ==
    IF m = <<>> THEN <<>>
    ELSE <<Key(Head(m).k)>> \o json_dumps(Head(m).v) \o DumpMembers(Tail(m))
json_dumps(v) ==
    CASE v.t = "str"  -> <<Str(v.s)>>
      [] v.t = "list" -> <<LS>> \o DumpItems(v.l) \o <<RS>>
      [] v.t = "obj"  -> <<LB>> \o DumpMembers(v.m) \o <<RB>>

(***************************************************************************)
(* json.loads: a recursive-descent parser. A parse step yields             *)
(* [ok, v, rest]; JSONDecodeError is the value of a failed parse.          *)
(***************************************************************************)
JSONDecodeError == [t |-> "JSONDecodeError"]
ParseFail == [ok |-> FALSE, v |-> None, rest |-> <<>>]

RECURSIVE ParseValue(_), ParseItems(_, _), ParseMembers(_, _)
ParseValue(ts) ==
    IF ts = <<>> THEN ParseFail
    ELSE CASE Head(ts)[1] = "str" -> [ok |-> TRUE, v |-> JStr(Head(ts)[2]), rest |-> Tail(ts)]
           [] Head(ts) = LS -> ParseItems(Tail(ts), <<>>)
           [] Head(ts) = LB -> ParseMembers(Tail(ts), <<>>)
           [] OTHER -> ParseFail
ParseItems(ts, acc) ==
    IF ts = <<>> THEN ParseFail
    ELSE IF Head(ts) = RS THEN [ok |-> TRUE, v |-> JList(acc), rest |-> Tail(ts)]
    ELSE LET r == ParseValue(ts)
         IN  IF r.ok THEN ParseItems(r.rest, Append(acc, r.v)) ELSE ParseFail
ParseMembers(ts, acc) ==
    IF ts = <<>> THEN ParseFail
    ELSE IF Head(ts) = RB THEN [ok |-> TRUE, v |-> JObj(acc), rest |-> Tail(ts)]
    ELSE IF Head(ts)[1] = "key"
         THEN LET r == ParseValue(Tail(ts))
              IN  IF r.ok THEN ParseMembers(r.rest, DictSet(acc, Head(ts)[2], r.v))
                  ELSE ParseFail
         ELSE ParseFail

json_loads(ts) ==
    LET r == ParseValue(ts)
    IN  IF r.ok /\ r.rest = <<>> THEN r.v ELSE JSONDecodeError

(***************************************************************************)
(* extract_json_like                                                       *)
(***************************************************************************)
\* re.search of the fenced-json pattern with re.DOTALL: the leftmost fence
\* followed by "{", and (greedy) the last "}" that a closing fence follows.
FenceStarts(s) ==
    {i \in 1..Len(s) :
        /\ s[i] = FenceOpen
        /\ i + 1 <= Len(s) /\ s[i + 1] = LB
        /\ \E j \in (i + 2)..(Len(s) - 1) : s[j] = RB /\ s[j + 1] = FenceClose}
FenceGroup(s) ==
    LET i == CHOOSE x \in FenceStarts(s) : \A y \in FenceStarts(s) : x <= y
        ends == {j \in (i + 2)..(Len(s) - 1) : s[j] = RB /\ s[j + 1] = FenceClose}
        j == CHOOSE x \in ends : \A y \in ends : y <= x
    IN  SubSeq(s, i + 1, j)

\* s.index('{') .. s.rindex('}') + 1, None on ValueError or JSONDecodeError
BraceSlice(s) ==
    LET opens == {i \in 1..Len(s) : s[i] = LB}
        closes == {i \in 1..Len(s) : s[i] = RB}
    IN  IF opens = {} \/ closes = {} THEN None
        ELSE LET start == CHOOSE x \in opens : \A y \in opens : x <= y
                 end == CHOOSE x \in closes : \A y \in closes : y <= x
                 v == json_loads(SubSeq(s, start, end))
             IN  IF v = JSONDecodeError THEN None ELSE v

extract_json_like(s) ==
    IF FenceStarts(s) # {} /\ json_loads(FenceGroup(s)) # JSONDecodeError
    THEN json_loads(FenceGroup(s))
    ELSE BraceSlice(s)


(***************************************************************************)
(* str.strip(): a string of a request is a sequence of characters.         *)
(***************************************************************************)
Whitespace == {" ", "\t", "\n"}

\* strip that strips nothing
StripNothing(s) == s

RECURSIVE lstrip(_), rstrip(_)
lstrip(s) ==
    IF s # <<>> /\ Head(s) \in Whitespace THEN lstrip(Tail(s)) ELSE s
rstrip(s) ==
    IF s # <<>> /\ s[Len(s)] \in Whitespace
    THEN rstrip(SubSeq(s, 1, Len(s) - 1)) ELSE s
strip(s) == rstrip(lstrip(s))

(***************************************************************************)
(* Inputs: request bodies and the completions of the LLM collaborator.     *)
(***************************************************************************)
\* request.get_json() or {} of POST /create_survey; data.get("prompt", "")
CreateBodies ==
    { [none |-> TRUE],
      [prompt |-> <<>>],
      [prompt |-> <<" ", "\t">>],
      [prompt |-> <<" ", "a", "\n">>] }
PromptOf(data) == IF "prompt" \in DOMAIN data THEN data.prompt ELSE <<>>

\* request.get_json() or {} of POST /submit_survey_response/<survey_id>;
\* data.get("responses", {})
SubmitBodies ==
    { [none |-> TRUE],
      [responses |-> JObj(<<>>)],
      [responses |-> JObj(<<[k |-> "How satisfied are you?", v |-> JStr("High")]>>)],
      [responses |-> JObj(<<[k |-> "q", v |-> JStr("a")]>>)] }
AnswersOf(data) == IF "responses" \in DOMAIN data THEN data.responses ELSE JObj(<<>>)

\* llm.invoke(...) raises
LLMException == <<<<"exception", "">>>>

LLMPulse ==
    << FenceOpen, LB, Key("title"), Str("Pulse Check"),
       Key("description"), Str("Team pulse"),
       Key("questions"), LS,
         LB, Key("question"), Str("How satisfied are you?"),
             Key("options"), LS, Str("Low"), Str("Medium"), Str("High"), RS, RB,
       RS, RB, FenceClose >>
LLMProse ==
    << Prose("Here is your survey:"), LB, Key("title"), Str("Pulse Check"),
       Key("description"), Str("Team pulse"),
       Key("questions"), LS,
         LB, Key("question"), Str("How satisfied are you?"),
             Key("options"), LS, Str("Low"), Str("Medium"), Str("High"), RS, RB,
       RS, RB, Prose("Enjoy!") >>
LLMEmptyQuestions ==
    << LB, Key("title"), Str("Empty"), Key("questions"), LS, RS, RB >>
LLMOneOption ==
    << LB, Key("title"), Str("Single"),
       Key("questions"), LS,
         LB, Key("question"), Str("Agree?"),
             Key("options"), LS, Str("Yes"), RS, RB,
       RS, RB >>
LLMNoQuestions == << FenceOpen, LB, Key("title"), Str("Untitled"), RB, FenceClose >>
LLMEmptyObject == << LB, RB >>
LLMGarbage == << Prose("I cannot help with that.") >>
LLMBroken == << Prose("Sure:"), LB, Key("title"), RB >>

\* Completions that hold a survey with the same question twice, and one
\* with the same option twice.
LLMDuplicateQuestion ==
    << LB, Key("title"), Str("Twice"),
       Key("questions"), LS,
         LB, Key("question"), Str("Agree?"),
             Key("options"), LS, Str("Yes"), Str("No"), RS, RB,
         LB, Key("question"), Str("Agree?"),
             Key("options"), LS, Str("Often"), Str("Never"), RS, RB,
       RS, RB >>
LLMRepeatedOption ==
    << LB, Key("title"), Str("Same"),
       Key("questions"), LS,
         LB, Key("question"), Str("Agree?"),
             Key("options"), LS, Str("Yes"), Str("Yes"), RS, RB,
       RS, RB >>

LLMSurveyTexts ==
    { LLMPulse, LLMProse, LLMEmptyQuestions, LLMOneOption,
      LLMNoQuestions, LLMEmptyObject, LLMGarbage, LLMBroken }

(***************************************************************************)
(* ChromaDB collections: a sequence of records [id, document, metadata]    *)
(* in insertion order.                                                     *)
(***************************************************************************)
Ids(collection) == {collection[i].id : i \in 1..Len(collection)}

\* an add that puts the record in the place of the last one
CollectionReplaceLast(collection, id, document, metadata) ==
    IF collection = <<>>
    THEN <<[id |-> id, document |-> document, metadata |-> metadata]>>
    ELSE [collection EXCEPT ![Len(collection)] =
             [id |-> id, document |-> document, metadata |-> metadata]]

\* collection.add(ids=[id], documents=[document], metadatas=[metadata])
CollectionAdd(collection, id, document, metadata) ==
    Append(collection, [id |-> id, document |-> document, metadata |-> metadata])

\* collection.get(ids=[id])
GetById(collection, id) == SelectSeq(collection, LAMBDA r : r.id = id)

\* a get whose where filter is not applied
GetWhereIgnored(collection, survey_id) == collection

\* collection.get(where={"survey_id": survey_id})
GetWhereSurvey(collection, survey_id) ==
    SelectSeq(collection, LAMBDA r : r.metadata.survey_id = survey_id)

\* The orders in which a query may return the records it selects: ChromaDB
\* documents no order for get().
Orders(records) ==
    LET n == Len(records)
        perms == {f \in [1..n -> 1..n] : \A i, j \in 1..n : f[i] = f[j] => i = j}
    IN  {[i \in 1..n |-> records[f[i]]] : f \in perms}

\* str(uuid.uuid4()): an identity the collection does not hold yet.
uuid4(collection) == IdPool \ Ids(collection)

\* request.host_url: the address the request was sent to. The server listens
\* on 0.0.0.0, so it is reached as HostUrl by the frontend on the same
\* machine and as LanUrl from the network; a request record without the
\* field host_url was sent to HostUrl.
HostUrl == "http://host/"
LanUrl == "http://lan/"
HostUrls == {HostUrl, LanUrl}
host_url(request) ==
    IF "host_url" \in DOMAIN request THEN request.host_url ELSE HostUrl

(***************************************************************************)
(* Handlers. last is the last request served and the response to it:       *)
(* op, req, status, body, llm_response (the completion llm.invoke          *)
(* returned, NotInvoked when the LLM was not called), store_ok / emit_ok   *)
(* (the storage layer / socketio.emit did not raise during the request).   *)
(* added is the history of the answers POST /submit_survey_response        *)
(* handed to response_collection.add, as they were submitted.              *)
(***************************************************************************)
NotInvoked == <<>>

\* The Socket.IO clients that may connect (dashboards).
Clients == {"dashboard", "monitor"}

\* an emit that reaches no client
EmitToNobody(event, payload) ==
    /\ emitted' = Append(emitted, [event |-> event, payload |-> payload])
    /\ received' = received

\* socketio.emit(event, payload): a broadcast, pushed to every client
\* connected when it is made. emitted is the sequence of all broadcasts,
\* received[c] the events pushed to client c.
socketio_emit(event, payload) ==
    /\ emitted' = Append(emitted, [event |-> event, payload |-> payload])
    /\ received' = [c \in Clients |->
                      IF c \in connected
                      THEN Append(received[c], [event |-> event, payload |-> payload])
                      ELSE received[c]]

\* The threads of the server (async_mode="threading"): one for each request,
\* Idle until the request arrives and Done once it is answered.
Threads == 1..MaxThreads
Idle == [pc |-> "idle"]
Done == [pc |-> "done"]

Response(op, req, status, body, llm_response, store_ok, emit_ok) ==
    [op |-> op, req |-> req, status |-> status, body |-> body,
     llm_response |-> llm_response, store_ok |-> store_ok, emit_ok |-> emit_ok]

\* the metadata create_survey stores with a survey
SurveyMetadata(url_root, survey_id, user_prompt, structure, t) ==
    [survey_id |-> survey_id, user_prompt |-> user_prompt,
     title |-> DictGet(structure, "title", JStr("AI Survey")),
     description |-> DictGet(structure, "description", JStr("")),
     public_url |-> <<url_root, "survey/", survey_id>>, created_at |-> t]

\* an add whose document is the question list instead of the structure
AddSurveyQuestionsOnly(collection, survey_id, structure, metadata) ==
    CollectionAdd(collection, survey_id,
                  json_dumps(DictGet(structure, "questions", JList(<<>>))), metadata)

\* survey_collection.add(...) of create_survey
AddSurvey(collection, survey_id, structure, metadata) ==
    CollectionAdd(collection, survey_id, json_dumps(structure), metadata)

\* a guard that only tests that something was extracted
SurveyRejectedIfEmpty(structure) == ~Truthy(structure)

\* the guard of create_survey on the extracted structure
SurveyRejected(structure) ==
    ~Truthy(structure) \/ ~HasKey(structure, "questions")

\* POST /create_survey. bodies: the request bodies; completions: what
\* llm.invoke may return; store_faults, emit_faults: whether the add / the
\* emit may succeed (TRUE) or raise (FALSE); clock: the readings of time.time().
create_survey(bodies, completions, store_faults, emit_faults, clock) ==
    \E data \in bodies :
      LET user_prompt == strip(PromptOf(data))
          Unchanged == UNCHANGED <<survey_collection, response_collection,
                                   individual_analysis_collection, emitted, now, added,
                                   connected, page, received, threads>>
          InternalError == [error |-> "Internal server error during survey creation."]
      IN
      IF user_prompt = <<>>
      THEN /\ last' = Response("create_survey", data, 400,
                               [error |-> "Prompt cannot be empty"], NotInvoked, TRUE, TRUE)
           /\ Unchanged
      ELSE \E llm_response \in completions :
        IF llm_response = LLMException
        THEN /\ last' = Response("create_survey", data, 500, InternalError,
                                 llm_response, TRUE, TRUE)
             /\ Unchanged
        ELSE LET structure == extract_json_like(llm_response) IN
        IF SurveyRejected(structure)
        THEN /\ last' = Response("create_survey", data, 500,
                                 [error |-> "AI failed to generate a valid survey.",
                                  raw_response |-> llm_response],
                                 llm_response, TRUE, TRUE)
             /\ Unchanged
        ELSE \E survey_id \in uuid4(survey_collection), t \in clock,
                store_ok \in store_faults :
          LET metadata == SurveyMetadata(host_url(data), survey_id, user_prompt, structure, t) IN
          /\ now' = t
          /\ UNCHANGED <<response_collection, individual_analysis_collection, added,
                         connected, page, threads>>
          /\ IF ~store_ok
             THEN /\ last' = Response("create_survey", data, 500, InternalError,
                                      llm_response, FALSE, TRUE)
                  /\ UNCHANGED <<survey_collection, emitted, received>>
             ELSE /\ survey_collection' =
                       AddSurvey(survey_collection, survey_id, structure, metadata)
                  /\ \E emit_ok \in emit_faults :
                       IF ~emit_ok
                       THEN /\ last' = Response("create_survey", data, 500,
                                                InternalError, llm_response, TRUE, FALSE)
                            /\ UNCHANGED <<emitted, received>>
                       ELSE /\ socketio_emit("new_survey",
                                             [survey_id |-> survey_id,
                                              metadata |-> metadata])
                            /\ last' = Response("create_survey", data, 200,
                                   [survey_id |-> survey_id,
                                    public_url |-> metadata.public_url,
                                    structure |-> structure],
                                   llm_response, TRUE, TRUE)

\* display_survey without the branch for an empty result: documents[0]
\* raises and the handler answers 500
DisplayWithoutNotFound(survey_id, store_ok) ==
    LET result == GetById(survey_collection, survey_id)
        Error500 == [status |-> 500,
                     body |-> [template |-> "<h1>500: Error loading survey</h1>"]]
    IN  IF ~store_ok \/ result = <<>> THEN Error500
        ELSE IF json_loads(result[1].document) = JSONDecodeError THEN Error500
        ELSE [status |-> 200,
              body |-> [template |-> "SURVEY_FORM_TEMPLATE",
                        survey |-> json_loads(result[1].document),
                        survey_id |-> survey_id]]

\* GET /survey/<survey_id>: the response on the store as it is
display_survey_response(survey_id, store_ok) ==
    LET result == GetById(survey_collection, survey_id)
        Error500 == [status |-> 500,
                     body |-> [template |-> "<h1>500: Error loading survey</h1>"]]
    IN  IF ~store_ok THEN Error500
        ELSE IF result = <<>>
        THEN [status |-> 404, body |-> [template |-> "<h1>404: Survey not found</h1>"]]
        ELSE IF json_loads(result[1].document) = JSONDecodeError THEN Error500
        ELSE [status |-> 200,
              body |-> [template |-> "SURVEY_FORM_TEMPLATE",
                        survey |-> json_loads(result[1].document),
                        survey_id |-> survey_id]]

display_survey(store_faults) ==
    \E survey_id \in UrlIds, store_ok \in store_faults :
      LET r == display_survey_response(survey_id, store_ok)
      IN  /\ last' = Response("display_survey", [survey_id |-> survey_id],
                              r.status, r.body, NotInvoked, store_ok, TRUE)
          /\ UNCHANGED <<survey_collection, response_collection,
                         individual_analysis_collection, emitted, now, added,
                         connected, page, received, threads>>

\* GET /survey/<survey_id>/qr: the response. The image qrcode.make(url)
\* returns is the string it encodes; qr_ok is FALSE when making or saving the
\* image raises.
survey_qr_response(url_root, survey_id, qr_ok) ==
    LET url == <<url_root, "survey/", survey_id>>
    IN  IF qr_ok
        THEN [status |-> 200, body |-> [mimetype |-> "image/png", qr_img |-> url]]
        ELSE [status |-> 500, body |-> [text |-> "Error generating QR code."]]

\* a QR route that announces the code it made to the dashboards
SurveyQrAnnounced(hosts, qr_faults) ==
    \E survey_id \in UrlIds, url_root \in hosts, qr_ok \in qr_faults :
      LET r == survey_qr_response(url_root, survey_id, qr_ok)
      IN  /\ last' = Response("survey_qr",
                              [survey_id |-> survey_id, host_url |-> url_root],
                              r.status, r.body, NotInvoked, TRUE, TRUE)
          /\ socketio_emit("qr_code", [survey_id |-> survey_id])
          /\ UNCHANGED <<survey_collection, response_collection,
                         individual_analysis_collection, now, added,
                         connected, page, threads>>

survey_qr(hosts, qr_faults) ==
    \E survey_id \in UrlIds, url_root \in hosts, qr_ok \in qr_faults :
      LET r == survey_qr_response(url_root, survey_id, qr_ok)
      IN  /\ last' = Response("survey_qr",
                              [survey_id |-> survey_id, host_url |-> url_root],
                              r.status, r.body, NotInvoked, TRUE, TRUE)
          /\ UNCHANGED <<survey_collection, response_collection,
                         individual_analysis_collection, emitted, now, added,
                         connected, page, received, threads>>

\* sorted(all_surveys, key=lambda x: x.get('created_at', 0), reverse=True):
\* a stable sort, equal keys keep the order they came in.
RECURSIVE sorted_by_created_at_reverse(_)
sorted_by_created_at_reverse(all_surveys) ==
    IF all_surveys = <<>> THEN <<>>
    ELSE LET n == Len(all_surveys)
             x == all_surveys[n]
             rest == sorted_by_created_at_reverse(SubSeq(all_surveys, 1, n - 1))
             before == SelectSeq(rest, LAMBDA y : y.created_at >= x.created_at)
             after == SelectSeq(rest, LAMBDA y : y.created_at < x.created_at)
         IN  before \o <<x>> \o after

\* a listing that leaves out the record the store returns last
RecentSurveysWithoutLast(results, store_ok) ==
    LET shown == SubSeq(results, 1, Len(results) - 1)
        all_surveys ==
            [i \in 1..Len(shown) |->
                ("structure" :> json_loads(shown[i].document)) @@ shown[i].metadata]
    IN  IF ~store_ok
        THEN [status |-> 500, body |-> [error |-> "Could not retrieve recent surveys."]]
        ELSE [status |-> 200, body |-> sorted_by_created_at_reverse(all_surveys)]

\* GET /recent_surveys: the response when survey_collection.get() returns
\* results
get_recent_surveys_response(results, store_ok) ==
    LET Error500 == [status |-> 500,
                     body |-> [error |-> "Could not retrieve recent surveys."]]
        all_surveys ==
            [i \in 1..Len(results) |->
                ("structure" :> json_loads(results[i].document)) @@ results[i].metadata]
    IN  IF ~store_ok THEN Error500
        ELSE IF results = <<>> THEN [status |-> 200, body |-> <<>>]
        ELSE IF \E i \in 1..Len(results) :
                    json_loads(results[i].document) = JSONDecodeError
        THEN Error500
        ELSE [status |-> 200, body |-> sorted_by_created_at_reverse(all_surveys)]

get_recent_surveys(store_faults) ==
    \E results \in Orders(survey_collection), store_ok \in store_faults :
      LET r == get_recent_surveys_response(results, store_ok)
      IN  /\ last' = Response("get_recent_surveys", [none |-> TRUE],
                              r.status, r.body, NotInvoked, store_ok, TRUE)
          /\ UNCHANGED <<survey_collection, response_collection,
                         individual_analysis_collection, emitted, now, added,
                         connected, page, received, threads>>

\* an add that drops the response of a survey the store does not hold
AddResponseIfSurveyExists(collection, response_id, answers, metadata) ==
    IF metadata.survey_id \in Ids(survey_collection)
    THEN CollectionAdd(collection, response_id, json_dumps(answers), metadata)
    ELSE collection

\* response_collection.add(...) of submit_survey_response
AddResponse(collection, response_id, answers, metadata) ==
    CollectionAdd(collection, response_id, json_dumps(answers), metadata)

\* POST /submit_survey_response/<survey_id>
submit_survey_response(bodies, store_faults, emit_faults, clock) ==
    \E survey_id \in UrlIds, data \in bodies :
      LET answers == AnswersOf(data)
          req == [survey_id |-> survey_id, data |-> data]
      IN
      IF ~Truthy(answers)
      THEN /\ last' = Response("submit_survey_response", req, 400,
                               [error |-> "No responses provided"], NotInvoked, TRUE, TRUE)
           /\ UNCHANGED <<survey_collection, response_collection,
                          individual_analysis_collection, emitted, now, added,
                          connected, page, received, threads>>
      ELSE \E response_id \in uuid4(response_collection), t \in clock,
              store_ok \in store_faults :
        LET metadata == [survey_id |-> survey_id, timestamp |-> t]
            Failed == [error |-> "Failed to submit response."]
        IN
        /\ now' = t
        /\ UNCHANGED <<survey_collection, individual_analysis_collection,
                       connected, page, threads>>
        /\ IF ~store_ok
           THEN /\ last' = Response("submit_survey_response", req, 500, Failed,
                                    NotInvoked, FALSE, TRUE)
                /\ UNCHANGED <<response_collection, emitted, received, added>>
           ELSE /\ response_collection' =
                     AddResponse(response_collection, response_id, answers, metadata)
                /\ added' = added \cup
                       {[response_id |-> response_id,
                         survey_id |-> survey_id, answers |-> answers]}
                /\ \E emit_ok \in emit_faults :
                     IF ~emit_ok
                     THEN /\ last' = Response("submit_survey_response", req, 500,
                                              Failed, NotInvoked, TRUE, FALSE)
                          /\ UNCHANGED <<emitted, received>>
                     ELSE /\ socketio_emit("new_response", [survey_id |-> survey_id])
                          /\ last' = Response("submit_survey_response", req, 200,
                                 [success |-> TRUE, response_id |-> response_id],
                                 NotInvoked, TRUE, TRUE)

\* get_survey_responses answering 404 for an empty result, as
\* analyze_survey_responses does
ResponsesNotFoundWhenEmpty(survey_id, results, store_ok) ==
    IF ~store_ok
    THEN [status |-> 500, body |-> [error |-> "Could not retrieve responses."]]
    ELSE IF results = <<>>
    THEN [status |-> 404, body |-> [error |-> "No responses found for this survey"]]
    ELSE [status |-> 200,
          body |-> [survey_id |-> survey_id,
                    responses |->
                      [i \in 1..Len(results) |->
                          [response_id |-> results[i].id,
                           answers |-> json_loads(results[i].document),
                           timestamp |-> results[i].metadata.timestamp]]]]

\* GET /get_survey_responses/<survey_id>: the response when
\* response_collection.get(where=...) returns results
get_survey_responses_response(survey_id, results, store_ok) ==
    LET Error500 == [status |-> 500,
                     body |-> [error |-> "Could not retrieve responses."]]
    IN  IF ~store_ok THEN Error500
        ELSE IF results = <<>>
        THEN [status |-> 200, body |-> [survey_id |-> survey_id, responses |-> <<>>]]
        ELSE IF \E i \in 1..Len(results) :
                    json_loads(results[i].document) = JSONDecodeError
        THEN Error500
        ELSE [status |-> 200,
              body |-> [survey_id |-> survey_id,
                        responses |->
                          [i \in 1..Len(results) |->
                              [response_id |-> results[i].id,
                               answers |-> json_loads(results[i].document),
                               timestamp |-> results[i].metadata.timestamp]]]]

get_survey_responses(store_faults) ==
    \E survey_id \in UrlIds, store_ok \in store_faults :
      \E results \in Orders(GetWhereSurvey(response_collection, survey_id)) :
        LET r == get_survey_responses_response(survey_id, results, store_ok)
        IN  /\ last' = Response("get_survey_responses", [survey_id |-> survey_id],
                                r.status, r.body, NotInvoked, store_ok, TRUE)
            /\ UNCHANGED <<survey_collection, response_collection,
                           individual_analysis_collection, emitted, now, added,
                           connected, page, received, threads>>

(***************************************************************************)
(* The analysis routes.                                                    *)
(***************************************************************************)
\* request.get_json() or {} of POST /analyze_survey_responses;
\* data.get("form_id")
AnalyzeBodies == {[none |-> TRUE]} \cup {[form_id |-> id] : id \in UrlIds}

LLMInsights ==
    << FenceOpen, LB, Key("overall_sentiment"), Str("positive"),
       Key("key_insights"), LS, Str("Team is satisfied"), RS, RB, FenceClose >>

LLMAnalysisTexts == { LLMInsights, LLMEmptyObject, LLMGarbage, LLMBroken }

\* POST /analyze_survey_responses
analyze_survey_responses(bodies, completions, store_faults) ==
    \E data \in bodies :
      LET InternalError == [error |-> "Internal server error during analysis."]
          Respond(status, body, llm_response, store_ok) ==
              /\ last' = Response("analyze_survey_responses", data, status, body,
                                  llm_response, store_ok, TRUE)
              /\ UNCHANGED <<survey_collection, response_collection,
                             individual_analysis_collection, emitted, now, added,
                             connected, page, received, threads>>
      IN
      IF "form_id" \notin DOMAIN data
      THEN Respond(400, [error |-> "No survey_id provided"], NotInvoked, TRUE)
      ELSE \E store_ok \in store_faults,
              results \in Orders(GetWhereSurvey(response_collection, data.form_id)) :
        IF ~store_ok
        THEN Respond(500, InternalError, NotInvoked, FALSE)
        ELSE IF results = <<>>
        THEN Respond(404, [error |-> "No responses found for this survey"],
                     NotInvoked, TRUE)
        ELSE IF \E i \in 1..Len(results) :
                    json_loads(results[i].document) = JSONDecodeError
        THEN Respond(500, InternalError, NotInvoked, TRUE)
        ELSE \E llm_resp \in completions :
          LET raw_responses ==
                  [i \in 1..Len(results) |-> json_loads(results[i].document)]
              analysis == extract_json_like(llm_resp)
          IN  IF llm_resp = LLMException
              THEN Respond(500, InternalError, llm_resp, TRUE)
              ELSE IF ~Truthy(analysis)
              THEN Respond(500, [error |-> "AI failed to produce a valid analysis.",
                                 raw_response |-> llm_resp], llm_resp, TRUE)
              ELSE Respond(200, [form_id |-> data.form_id, analysis |-> analysis,
                                 raw_responses |-> raw_responses], llm_resp, TRUE)

\* request.get_json() or {} of POST /submit; data.get("response", "")
IndividualBodies ==
    { [none |-> TRUE],
      [response |-> <<>>],
      [response |-> <<" ", "\n">>],
      [response |-> <<" ", "ok", "\t">>] }
ResponseTextOf(data) == IF "response" \in DOMAIN data THEN data.response ELSE <<>>

LLMSentiment ==
    << FenceOpen, LB, Key("sentiment"), Str("positive"),
       Key("feedback"), Str("Keep going"), RB, FenceClose >>

\* a completion whose payload has the keys of the two fields the route sets
LLMOwnFields ==
    << FenceOpen, LB, Key("sentiment"), Str("positive"),
       Key("user_input"), Str("rewritten"), Key("timestamp"), Str("yesterday"),
       RB, FenceClose >>

LLMIndividualTexts == { LLMSentiment, LLMEmptyObject, LLMGarbage, LLMBroken }

\* {**base, **other} on member sequences: the members of other are set in
\* their order
RECURSIVE DictUpdate(_, _)
DictUpdate(base, other) ==
    IF other = <<>> THEN base
    ELSE DictUpdate(DictSet(base, Head(other).k, Head(other).v), Tail(other))

\* The values the route itself puts into the metadata: the text that was
\* submitted (a str, held as its tokens) and int(time.time()).
JText(s) == [t |-> "text", s |-> s]
JInt(n) == [t |-> "int", n |-> n]

\* the metadata submit_individual_analysis stores with an analysis
IndividualMetadata(response_text, t, analysis) ==
    DictUpdate(<<[k |-> "user_input", v |-> JText(response_text)],
                 [k |-> "timestamp", v |-> JInt(t)]>>, analysis.m)

\* an add that stores the metadata without the analysis
AddIndividualWithoutAnalysis(collection, response_id, response_text, metadata) ==
    CollectionAdd(collection, response_id, response_text, SubSeq(metadata, 1, 2))

\* individual_analysis_collection.add(...) of submit_individual_analysis
AddIndividual(collection, response_id, response_text, metadata) ==
    CollectionAdd(collection, response_id, response_text, metadata)

\* POST /submit
submit_individual_analysis(bodies, completions, store_faults, clock) ==
    \E data \in bodies :
      LET response_text == strip(ResponseTextOf(data))
          InternalError == [error |-> "Internal server error during analysis."]
          Unchanged == UNCHANGED <<survey_collection, response_collection,
                                   individual_analysis_collection, emitted, now, added,
                                   connected, page, received, threads>>
          Respond(status, body, llm_response, store_ok) ==
              last' = Response("submit_individual_analysis", data, status, body,
                               llm_response, store_ok, TRUE)
      IN
      IF response_text = <<>>
      THEN Respond(400, [error |-> "No response text provided"], NotInvoked, TRUE)
           /\ Unchanged
      ELSE \E llm_resp \in completions :
        IF llm_resp = LLMException
        THEN Respond(500, InternalError, llm_resp, TRUE) /\ Unchanged
        ELSE LET analysis == extract_json_like(llm_resp) IN
        IF ~Truthy(analysis)
        THEN Respond(500, [error |-> "AI failed to produce a valid analysis."],
                     llm_resp, TRUE) /\ Unchanged
        ELSE \E response_id \in uuid4(individual_analysis_collection), t \in clock,
                store_ok \in store_faults :
          LET metadata == IndividualMetadata(response_text, t, analysis) IN
          /\ now' = t
          /\ UNCHANGED <<survey_collection, response_collection, emitted, added,
                         connected, page, received, threads>>
          /\ IF ~store_ok
             THEN /\ Respond(500, InternalError, llm_resp, FALSE)
                  /\ UNCHANGED individual_analysis_collection
             ELSE /\ individual_analysis_collection' =
                       AddIndividual(individual_analysis_collection, response_id,
                                     response_text, metadata)
                  /\ Respond(200, [id |-> response_id, analysis |-> analysis],
                             llm_resp, TRUE)

(***************************************************************************)
(* Socket.IO clients.                                                      *)
(***************************************************************************)
\* a connect that pushes the events emitted so far to the client
ConnectWithReplay ==
    \E c \in Clients \ connected :
      /\ connected' = connected \cup {c}
      /\ received' = [received EXCEPT ![c] = received[c] \o emitted]
      /\ UNCHANGED <<survey_collection, response_collection,
                     individual_analysis_collection, emitted, now, last, added,
                     threads, page>>

\* A client connects: handle_connect only logs, nothing is pushed to it.
handle_connect ==
    \E c \in Clients \ connected :
      /\ connected' = connected \cup {c}
      /\ UNCHANGED <<survey_collection, response_collection,
                     individual_analysis_collection, emitted, now, last, added,
                     received, threads, page>>

\* A client goes away: the server registers no handler for it.
disconnect ==
    \E c \in connected :
      /\ connected' = connected \ {c}
      /\ UNCHANGED <<survey_collection, response_collection,
                     individual_analysis_collection, emitted, now, last, added,
                     received, threads, page>>

(***************************************************************************)
(* The write routes served by concurrent threads. A thread can be           *)
(* pre-empted between uuid.uuid4() and collection.add(): threads[th] is     *)
(* what the request holds at that point.                                     *)
(***************************************************************************)
\* the identities the threads that serve op hold and have not added yet
InFlight(op) ==
    {threads[th].id : th \in {x \in Threads : threads[x].pc = "add"
                                               /\ threads[x].op = op}}

\* a uuid4() that may return an identity again
uuid4Repeating(collection, op) == IdPool

\* str(uuid.uuid4()) under concurrency: an identity that neither the
\* collection holds nor another thread has drawn.
uuid4Concurrent(collection, op) == uuid4(collection) \ InFlight(op)

\* thread th answers its request: Done, with the response in last
Answer(th, op, req, status, body, llm_response) ==
    /\ threads' = [threads EXCEPT ![th] = Done]
    /\ last' = Response(op, req, status, body, llm_response, TRUE, TRUE)
    /\ UNCHANGED now

\* thread th is about to call collection.add(ids=[id], ...)
Pending(th, op, req, id, content, metadata, llm_response, t) ==
    /\ threads' = [threads EXCEPT ![th] =
          [pc |-> "add", op |-> op, req |-> req, id |-> id, content |-> content,
           metadata |-> metadata, llm_response |-> llm_response]]
    /\ now' = t
    /\ UNCHANGED last

\* create_survey up to the add, or to the return before it
begin_create_survey(th, bodies, completions, clock) ==
    \E data \in bodies :
      LET user_prompt == strip(PromptOf(data)) IN
      IF user_prompt = <<>>
      THEN Answer(th, "create_survey", data, 400,
                  [error |-> "Prompt cannot be empty"], NotInvoked)
      ELSE \E llm_response \in completions :
        LET structure == extract_json_like(llm_response) IN
        IF llm_response = LLMException
        THEN Answer(th, "create_survey", data, 500,
                    [error |-> "Internal server error during survey creation."],
                    llm_response)
        ELSE IF SurveyRejected(structure)
        THEN Answer(th, "create_survey", data, 500,
                    [error |-> "AI failed to generate a valid survey.",
                     raw_response |-> llm_response], llm_response)
        ELSE \E survey_id \in uuid4Concurrent(survey_collection, "create_survey"),
                t \in clock :
               Pending(th, "create_survey", data, survey_id, structure,
                       SurveyMetadata(host_url(data), survey_id, user_prompt, structure, t),
                       llm_response, t)

\* submit_survey_response up to the add, or to the return before it
begin_submit_survey_response(th, urls, bodies, clock) ==
    \E survey_id \in urls, data \in bodies :
      LET req == [survey_id |-> survey_id, data |-> data] IN
      IF ~Truthy(AnswersOf(data))
      THEN Answer(th, "submit_survey_response", req, 400,
                  [error |-> "No responses provided"], NotInvoked)
      ELSE \E response_id \in uuid4Concurrent(response_collection,
                                              "submit_survey_response"),
              t \in clock :
             Pending(th, "submit_survey_response", req, response_id,
                     AnswersOf(data), [survey_id |-> survey_id, timestamp |-> t],
                     NotInvoked, t)

\* submit_individual_analysis up to the add, or to the return before it
begin_submit_individual_analysis(th, bodies, completions, clock) ==
    \E data \in bodies :
      LET response_text == strip(ResponseTextOf(data)) IN
      IF response_text = <<>>
      THEN Answer(th, "submit_individual_analysis", data, 400,
                  [error |-> "No response text provided"], NotInvoked)
      ELSE \E llm_resp \in completions :
        LET analysis == extract_json_like(llm_resp) IN
        IF llm_resp = LLMException
        THEN Answer(th, "submit_individual_analysis", data, 500,
                    [error |-> "Internal server error during analysis."], llm_resp)
        ELSE IF ~Truthy(analysis)
        THEN Answer(th, "submit_individual_analysis", data, 500,
                    [error |-> "AI failed to produce a valid analysis."], llm_resp)
        ELSE \E response_id \in uuid4Concurrent(individual_analysis_collection,
                                                "submit_individual_analysis"),
                t \in clock :
               Pending(th, "submit_individual_analysis", data, response_id,
                       [response_text |-> response_text, analysis |-> analysis],
                       IndividualMetadata(response_text, t, analysis), llm_resp, t)

\* A request arrives on thread th and runs up to its add, or to its return
\* if that comes first.
begin_write(th, urls, prompts, answers, texts, surveys, analyses, clock) ==
    /\ threads[th] = Idle
    /\ \/ begin_create_survey(th, prompts, surveys, clock)
       \/ begin_submit_survey_response(th, urls, answers, clock)
       \/ begin_submit_individual_analysis(th, texts, analyses, clock)
    /\ UNCHANGED <<survey_collection, response_collection,
                   individual_analysis_collection, emitted, added,
                   connected, page, received>>

\* the add of create_survey and what follows it
finish_create_survey(p, store_ok, emit_faults) ==
    LET InternalError == [error |-> "Internal server error during survey creation."]
    IN
    /\ UNCHANGED <<response_collection, individual_analysis_collection, added>>
    /\ IF ~store_ok
       THEN /\ last' = Response(p.op, p.req, 500, InternalError,
                                p.llm_response, FALSE, TRUE)
            /\ UNCHANGED <<survey_collection, emitted, received>>
       ELSE /\ survey_collection' =
                 AddSurvey(survey_collection, p.id, p.content, p.metadata)
            /\ \E emit_ok \in emit_faults :
                 IF ~emit_ok
                 THEN /\ last' = Response(p.op, p.req, 500, InternalError,
                                          p.llm_response, TRUE, FALSE)
                      /\ UNCHANGED <<emitted, received>>
                 ELSE /\ socketio_emit("new_survey",
                                       [survey_id |-> p.id, metadata |-> p.metadata])
                      /\ last' = Response(p.op, p.req, 200,
                                    [survey_id |-> p.id,
                                     public_url |-> p.metadata.public_url,
                                     structure |-> p.content],
                                    p.llm_response, TRUE, TRUE)

\* the add of submit_survey_response and what follows it
finish_submit_survey_response(p, store_ok, emit_faults) ==
    LET Failed == [error |-> "Failed to submit response."]
    IN
    /\ UNCHANGED <<survey_collection, individual_analysis_collection>>
    /\ IF ~store_ok
       THEN /\ last' = Response(p.op, p.req, 500, Failed, NotInvoked, FALSE, TRUE)
            /\ UNCHANGED <<response_collection, emitted, received, added>>
       ELSE /\ response_collection' =
                 AddResponse(response_collection, p.id, p.content, p.metadata)
            /\ added' = added \cup
                   {[response_id |-> p.id, survey_id |-> p.req.survey_id,
                     answers |-> p.content]}
            /\ \E emit_ok \in emit_faults :
                 IF ~emit_ok
                 THEN /\ last' = Response(p.op, p.req, 500, Failed,
                                          NotInvoked, TRUE, FALSE)
                      /\ UNCHANGED <<emitted, received>>
                 ELSE /\ socketio_emit("new_response",
                                       [survey_id |-> p.req.survey_id])
                      /\ last' = Response(p.op, p.req, 200,
                                          [success |-> TRUE, response_id |-> p.id],
                                          NotInvoked, TRUE, TRUE)

\* the add of submit_individual_analysis and what follows it
finish_submit_individual_analysis(p, store_ok) ==
    /\ UNCHANGED <<survey_collection, response_collection, emitted, received, added>>
    /\ IF ~store_ok
       THEN /\ last' = Response(p.op, p.req, 500,
                                [error |-> "Internal server error during analysis."],
                                p.llm_response, FALSE, TRUE)
            /\ UNCHANGED individual_analysis_collection
       ELSE /\ individual_analysis_collection' =
                 AddIndividual(individual_analysis_collection, p.id,
                               p.content.response_text, p.metadata)
            /\ last' = Response(p.op, p.req, 200,
                                [id |-> p.id, analysis |-> p.content.analysis],
                                p.llm_response, TRUE, TRUE)

\* Thread th runs its request from the add to the answer.
finish_write(th, store_faults, emit_faults) ==
    /\ threads[th].pc = "add"
    /\ threads' = [threads EXCEPT ![th] = Done]
    /\ UNCHANGED <<now, connected, page>>
    /\ \E store_ok \in store_faults :
         CASE threads[th].op = "create_survey" ->
                finish_create_survey(threads[th], store_ok, emit_faults)
           [] threads[th].op = "submit_survey_response" ->
                finish_submit_survey_response(threads[th], store_ok, emit_faults)
           [] threads[th].op = "submit_individual_analysis" ->
                finish_submit_individual_analysis(threads[th], store_ok)

(***************************************************************************)
(* The frontend (Streamlit). What a page holds after a run is kept in      *)
(* last: op is the function or page, body what it computed.                *)
(***************************************************************************)
\* safe_request('get', url): the JSON of the response, or None on an HTTP
\* error; None is held as the empty list, the callers only test "if data".
safe_request(response) ==
    IF response.status = 200 THEN response.body ELSE <<>>

\* datetime.fromtimestamp(timestamp).strftime("%Y-%m-%d %H:%M:%S"), the
\* local time zone being UTC: the day since the epoch and the time of day
format_timestamp(timestamp) ==
    [date |-> timestamp \div 86400, hour |-> (timestamp % 86400) \div 3600,
     minute |-> (timestamp % 3600) \div 60, second |-> timestamp % 60]

\* datetime.fromtimestamp(timestamp).strftime("%Y-%m-%d")
format_date(timestamp) == [date |-> timestamp \div 86400]

\* the loop of get_survey_list: survey_options[f"{title} ({created})"] =
\* survey_id for each survey in turn, as a member sequence
RECURSIVE survey_options(_)
survey_options(surveys_data) ==
    IF surveys_data = <<>> THEN <<>>
    ELSE LET n == Len(surveys_data)
             survey == surveys_data[n]
             title == DictGet(survey.structure, "title", JStr("Untitled Survey"))
             created == format_timestamp(survey.created_at)
         IN  DictSet(survey_options(SubSeq(surveys_data, 1, n - 1)),
                     <<title.s, created>>, survey.survey_id)

\* the same loop on the Survey Analysis page, the display name holding the
\* date only
RECURSIVE page_survey_options(_)
page_survey_options(surveys_data) ==
    IF surveys_data = <<>> THEN <<>>
    ELSE LET n == Len(surveys_data)
             survey == surveys_data[n]
             title == DictGet(survey.structure, "title", JStr("Untitled Survey"))
             created == format_date(survey.created_at)
         IN  DictSet(page_survey_options(SubSeq(surveys_data, 1, n - 1)),
                     <<title.s, created>>, survey.survey_id)

\* get_survey_list(backend_url): GET /recent_surveys, then the loop
get_survey_list(store_faults) ==
    \E results \in Orders(survey_collection), store_ok \in store_faults :
      LET response == get_recent_surveys_response(results, store_ok)
          surveys_data == safe_request(response)
      IN  /\ last' = Response("get_survey_list", [none |-> TRUE], response.status,
                              [surveys_data |-> surveys_data,
                               survey_options |-> survey_options(surveys_data)],
                              NotInvoked, store_ok, TRUE)
          /\ UNCHANGED <<survey_collection, response_collection,
                         individual_analysis_collection, emitted, now, added,
                         connected, page, received, threads>>

\* a run of the Survey Analysis page up to the selectbox
survey_analysis_page(store_faults) ==
    \E results \in Orders(survey_collection), store_ok \in store_faults :
      LET response == get_recent_surveys_response(results, store_ok)
          surveys_data == safe_request(response)
      IN  /\ last' = Response("survey_analysis_page", [none |-> TRUE], response.status,
                              [surveys_data |-> surveys_data,
                               survey_options |-> page_survey_options(surveys_data)],
                              NotInvoked, store_ok, TRUE)
          /\ UNCHANGED <<survey_collection, response_collection,
                         individual_analysis_collection, emitted, now, added,
                         connected, page, received, threads>>

(***************************************************************************)
(* The pages that refresh themselves. page is the page the browser shows:  *)
(* its name, the state of its auto-refresh checkbox, where the run of the  *)
(* script is (start, sleep in time.sleep, done), whether this run has      *)
(* rendered the figures, and the figures.                                  *)
(***************************************************************************)
Pages == {"Dashboard", "Response Monitor"}

NoMetrics == [total_surveys |-> 0, total_responses |-> 0]

\* a run of the script begins: nothing of it is rendered yet
PageStart(name, auto_refresh) ==
    [name |-> name, auto_refresh |-> auto_refresh, pc |-> "start",
     rendered |-> FALSE, metrics |-> NoMetrics]

BackendUnchanged ==
    UNCHANGED <<survey_collection, response_collection,
                individual_analysis_collection, emitted, now, last, added,
                connected, received, threads>>

\* len(all_responses) after the loop over surveys_data: the responses
\* GET /get_survey_responses/<survey_id> returns for each survey
RECURSIVE total_responses(_)
total_responses(surveys_data) ==
    IF surveys_data = <<>> THEN 0
    ELSE LET survey_id == Head(surveys_data).survey_id
             response == get_survey_responses_response(
                             survey_id, GetWhereSurvey(response_collection, survey_id),
                             TRUE)
         IN  (IF response.status = 200 THEN Len(response.body.responses) ELSE 0)
             + total_responses(Tail(surveys_data))

\* what both pages fetch: GET /recent_surveys, then the responses of each
\* survey
FetchMetrics(store_ok) ==
    LET surveys_data ==
            safe_request(get_recent_surveys_response(survey_collection, store_ok))
    IN  [total_surveys |-> Len(surveys_data),
         total_responses |-> total_responses(surveys_data)]

\* the user picks another page in the sidebar: its checkbox starts unticked
select_page ==
    \E name \in Pages \ {page.name} :
      /\ page' = PageStart(name, FALSE)
      /\ BackendUnchanged

\* the user ticks or unticks the auto-refresh checkbox: the script reruns
toggle_auto_refresh ==
    /\ page' = PageStart(page.name, ~page.auto_refresh)
    /\ BackendUnchanged

\* Dashboard, checkbox ticked: time.sleep(30) right after the checkbox
dashboard_auto_refresh ==
    /\ page.name = "Dashboard"
    /\ page.pc = "start"
    /\ page.auto_refresh
    /\ page' = [page EXCEPT !.pc = "sleep"]
    /\ BackendUnchanged

\* Dashboard, checkbox unticked: the figures are fetched and rendered and
\* the script ends
dashboard_render(store_faults) ==
    /\ page.name = "Dashboard"
    /\ page.pc = "start"
    /\ ~page.auto_refresh
    /\ \E store_ok \in store_faults :
         page' = [page EXCEPT !.pc = "done", !.rendered = TRUE,
                              !.metrics = FetchMetrics(store_ok)]
    /\ BackendUnchanged

\* Response Monitor, checkbox ticked: the responses are fetched and
\* rendered, then time.sleep(10)
monitor_render(store_faults) ==
    /\ page.name = "Response Monitor"
    /\ page.pc = "start"
    /\ page.auto_refresh
    /\ \E store_ok \in store_faults :
         page' = [page EXCEPT !.pc = "sleep", !.rendered = TRUE,
                              !.metrics = FetchMetrics(store_ok)]
    /\ BackendUnchanged

\* Response Monitor, checkbox unticked: st.info(...) and the script ends
monitor_info ==
    /\ page.name = "Response Monitor"
    /\ page.pc = "start"
    /\ ~page.auto_refresh
    /\ page' = [page EXCEPT !.pc = "done"]
    /\ BackendUnchanged

\* st.rerun() after the sleep: the script starts again, the checkbox as it
\* was
rerun ==
    /\ page.pc = "sleep"
    /\ page' = PageStart(page.name, page.auto_refresh)
    /\ BackendUnchanged

(***************************************************************************)
(* The system.                                                             *)
(***************************************************************************)
NoRequest ==
    Response("none", [none |-> TRUE], 0, [none |-> TRUE], NotInvoked, TRUE, TRUE)

\* A fresh ./memory directory.
Init ==
    /\ survey_collection = <<>>
    /\ response_collection = <<>>
    /\ individual_analysis_collection = <<>>
    /\ emitted = <<>>
    /\ now = 0
    /\ last = NoRequest
    /\ added = {}
    /\ connected = {}
    /\ received = [c \in Clients |-> <<>>]
    /\ threads = [th \in Threads |-> Idle]
    /\ page = PageStart("Dashboard", FALSE)

\* A ./memory directory that holds the survey an earlier run of the server
\* created from LLMPulse (PersistentClient keeps the collections).
InitWithSurvey ==
    /\ survey_collection =
          AddSurvey(<<>>, 1, extract_json_like(LLMPulse),
                    SurveyMetadata(HostUrl, 1, <<"a">>, extract_json_like(LLMPulse), 0))
    /\ response_collection = <<>>
    /\ individual_analysis_collection = <<>>
    /\ emitted = <<>>
    /\ now = 0
    /\ last = NoRequest
    /\ added = {}
    /\ connected = {}
    /\ received = [c \in Clients |-> <<>>]
    /\ threads = [th \in Threads |-> Idle]
    /\ page = PageStart("Dashboard", FALSE)

\* A ./memory directory that also holds a response to that survey.
InitWithResponse ==
    /\ survey_collection =
          AddSurvey(<<>>, 1, extract_json_like(LLMPulse),
                    SurveyMetadata(HostUrl, 1, <<"a">>, extract_json_like(LLMPulse), 0))
    /\ response_collection =
          AddResponse(<<>>, 1, JObj(<<[k |-> "How satisfied are you?", v |-> JStr("High")]>>),
                      [survey_id |-> 1, timestamp |-> 0])
    /\ individual_analysis_collection = <<>>
    /\ emitted = <<>>
    /\ now = 0
    /\ last = NoRequest
    /\ added = {[response_id |-> 1, survey_id |-> 1,
                 answers |-> JObj(<<[k |-> "How satisfied are you?", v |-> JStr("High")]>>)]}
    /\ connected = {}
    /\ received = [c \in Clients |-> <<>>]
    /\ threads = [th \in Threads |-> Idle]
    /\ page = PageStart("Dashboard", FALSE)

CreateSurveyRequest ==
    create_survey(CreateBodies, LLMSurveyTexts \cup {LLMException},
                  BOOLEAN, {TRUE}, now..MaxTime)
DisplaySurveyRequest == display_survey(BOOLEAN)
SurveyQrRequest == survey_qr(HostUrls, BOOLEAN)
RecentSurveysRequest == get_recent_surveys(BOOLEAN)
SubmitResponseRequest == submit_survey_response(SubmitBodies, BOOLEAN, {TRUE}, {now})
SurveyResponsesRequest == get_survey_responses(BOOLEAN)

AnalyzeRequest ==
    analyze_survey_responses(AnalyzeBodies, LLMAnalysisTexts \cup {LLMException},
                             BOOLEAN)

\* Completions with the braces in the wrong order and with a fence around
\* what is no JSON.
LLMReversed == << RB, Prose("then"), LB >>
LLMFenceBroken == << FenceOpen, LB, Key("title"), RB, FenceClose >>

\* Completions no route can use, and with one that each route can.
LLMUnusable ==
    {LLMEmptyObject, LLMGarbage, LLMBroken, LLMReversed, LLMFenceBroken}
LLMExtractSurveys == LLMUnusable \cup {LLMNoQuestions, LLMPulse, LLMProse}
LLMExtractAnalyses == LLMUnusable \cup {LLMSentiment}

IndividualAnalysisRequest ==
    submit_individual_analysis(IndividualBodies, LLMIndividualTexts \cup {LLMException},
                               BOOLEAN, now..MaxTime)

\* Every route, with the clock running.
Next ==
    \/ CreateSurveyRequest
    \/ DisplaySurveyRequest
    \/ SurveyQrRequest
    \/ RecentSurveysRequest
    \/ submit_survey_response(SubmitBodies, BOOLEAN, {TRUE}, now..MaxTime)
    \/ SurveyResponsesRequest
    \/ AnalyzeRequest
    \/ IndividualAnalysisRequest
    \/ handle_connect
    \/ disconnect

Spec == Init /\ [][Next]_vars

\* Creating and showing surveys.
NextSurvey ==
    \/ CreateSurveyRequest
    \/ DisplaySurveyRequest

SpecSurvey == Init /\ [][NextSurvey]_vars

\* Creating and listing surveys.
CreateListedSurveyRequest ==
    create_survey(CreateBodies, {LLMPulse, LLMOneOption, LLMGarbage},
                  BOOLEAN, {TRUE}, now..MaxTime)

NextList ==
    \/ CreateListedSurveyRequest
    \/ RecentSurveysRequest

SpecList == Init /\ [][NextList]_vars

\* The response routes, all requests served within one second.
NextResponse ==
    \/ SubmitResponseRequest
    \/ SurveyResponsesRequest

SpecResponse == InitWithSurvey /\ [][NextResponse]_vars

\* The write routes on concurrent threads, all within one second.
BeginWrite ==
    \E th \in Threads :
      begin_write(th, {0}, CreateBodies, SubmitBodies, IndividualBodies,
                  {LLMPulse, LLMGarbage, LLMException},
                  {LLMSentiment, LLMGarbage, LLMException}, {now})
FinishWrite == \E th \in Threads : finish_write(th, BOOLEAN, {TRUE})

NextConcurrent ==
    \/ BeginWrite
    \/ FinishWrite

SpecConcurrent == Init /\ [][NextConcurrent]_vars

\* The analysis routes.
NextAnalysis ==
    \/ AnalyzeRequest
    \/ IndividualAnalysisRequest

SpecAnalysis == InitWithResponse /\ [][NextAnalysis]_vars

\* Every route that writes, on concurrent threads, and every route that
\* reads, the storage layer up while it reads.
NextStore ==
    \/ \E th \in Threads :
         begin_write(th, {0}, {[prompt |-> <<" ", "a", "\n">>]},
                     {[responses |-> JObj(<<[k |-> "q", v |-> JStr("a")]>>)]},
                     {[response |-> <<" ", "ok", "\t">>]},
                     {LLMPulse}, {LLMSentiment}, {now})
    \/ FinishWrite
    \/ display_survey({TRUE})
    \/ get_recent_surveys({TRUE})
    \/ get_survey_responses({TRUE})
    \/ analyze_survey_responses(AnalyzeBodies, {LLMInsights, LLMGarbage}, {TRUE})

SpecStore == Init /\ [][NextStore]_vars

\* The write routes on concurrent threads while Socket.IO clients come and
\* go; the add and the emit may raise.
NextNotify ==
    \/ \E th \in Threads :
         begin_write(th, {0}, {[prompt |-> <<>>], [prompt |-> <<" ", "a", "\n">>]},
                     {[none |-> TRUE],
                      [responses |-> JObj(<<[k |-> "q", v |-> JStr("a")]>>)]},
                     {[response |-> <<" ", "ok", "\t">>]},
                     {LLMPulse}, {LLMSentiment}, {now})
    \/ \E th \in Threads : finish_write(th, BOOLEAN, BOOLEAN)
    \/ handle_connect
    \/ disconnect

SpecNotify == Init /\ [][NextNotify]_vars

\* The routes that call the LLM, on every completion: the write routes on
\* concurrent threads, add and emit not raising.
NextExtract ==
    \/ \E th \in Threads :
         begin_write(th, {0}, {[prompt |-> <<" ", "a", "\n">>]},
                     {[responses |-> JObj(<<[k |-> "q", v |-> JStr("a")]>>)]},
                     {[response |-> <<" ", "ok", "\t">>]},
                     LLMExtractSurveys, LLMExtractAnalyses, {now})
    \/ \E th \in Threads : finish_write(th, {TRUE}, {TRUE})
    \/ analyze_survey_responses(AnalyzeBodies, LLMUnusable \cup {LLMInsights}, {TRUE})

SpecExtract == Init /\ [][NextExtract]_vars

\* Creating and showing surveys whose questions or options repeat.
NextQuestions ==
    \/ create_survey(CreateBodies, {LLMPulse, LLMDuplicateQuestion, LLMRepeatedOption},
                     BOOLEAN, {TRUE}, now..MaxTime)
    \/ DisplaySurveyRequest

SpecQuestions == Init /\ [][NextQuestions]_vars

\* Creating surveys and asking for their QR codes, each request sent to
\* either address of the server.
LocatorRequests == {[prompt |-> <<"a">>, host_url |-> url_root] : url_root \in HostUrls}

NextLocator ==
    \/ create_survey(LocatorRequests, {LLMPulse, LLMGarbage}, BOOLEAN, {TRUE},
                     now..MaxTime)
    \/ SurveyQrRequest

SpecLocator == Init /\ [][NextLocator]_vars

\* Every route that reads, the storage layer up or down, on a store that
\* holds a survey and a response and that two of the routes that write add
\* to, all requests served within one second.
NextReadOnly ==
    \/ create_survey({[prompt |-> <<"a">>]}, {LLMPulse}, {TRUE}, {TRUE}, {now})
    \/ submit_individual_analysis({[response |-> <<"ok">>]}, {LLMSentiment}, {TRUE},
                                  {now})
    \/ DisplaySurveyRequest
    \/ survey_qr({HostUrl}, BOOLEAN)
    \/ SurveyResponsesRequest
    \/ RecentSurveysRequest
    \/ analyze_survey_responses(AnalyzeBodies, {LLMInsights, LLMGarbage, LLMException},
                                BOOLEAN)

SpecReadOnly == InitWithResponse /\ [][NextReadOnly]_vars

\* Individual analyses whose payload may name the fields the route sets.
NextOverwrite ==
    submit_individual_analysis(IndividualBodies,
                               {LLMSentiment, LLMOwnFields, LLMGarbage},
                               BOOLEAN, now..MaxTime)

SpecOverwrite == Init /\ [][NextOverwrite]_vars

\* Creating surveys and building the selection lists of the frontend.
NextSelect ==
    \/ create_survey({[prompt |-> <<"a">>]}, {LLMPulse, LLMOneOption}, {TRUE}, {TRUE},
                     now..MaxTime)
    \/ get_survey_list(BOOLEAN)
    \/ survey_analysis_page(BOOLEAN)

SpecSelect == Init /\ [][NextSelect]_vars

\* The two pages that refresh themselves, over a store that holds a survey
\* and a response and that surveys and responses are added to.
NextRefresh ==
    \/ create_survey({[prompt |-> <<"a">>]}, {LLMPulse}, {TRUE}, {TRUE}, {now})
    \/ submit_survey_response({[responses |-> JObj(<<[k |-> "q", v |-> JStr("a")]>>)]},
                              {TRUE}, {TRUE}, {now})
    \/ select_page
    \/ toggle_auto_refresh
    \/ dashboard_auto_refresh
    \/ dashboard_render(BOOLEAN)
    \/ monitor_render(BOOLEAN)
    \/ monitor_info
    \/ rerun

SpecRefresh == InitWithResponse /\ [][NextRefresh]_vars

(***************************************************************************)
(* Properties.                                                             *)
(***************************************************************************)

\* validate_survey_structure of the frontend: the valid survey structures
validate_survey_structure(structure) ==
    /\ structure.t = "obj"
    /\ HasKey(structure, "title")
    /\ HasKey(structure, "questions")
    /\ LET questions == DictGet(structure, "questions", JList(<<>>))
       IN  /\ questions.t = "list"
           /\ Len(questions.l) # 0
           /\ \A i \in 1..Len(questions.l) :
                LET question == questions.l[i]
                IN  /\ question.t = "obj"
                    /\ HasKey(question, "question")
                    /\ HasKey(question, "options")
                    /\ DictGet(question, "options", None).t = "list"
                    /\ ~(Len(DictGet(question, "options", None).l) < 2)

\* the structure is a survey whose question sequence is empty
HasEmptyQuestions(structure) ==
    /\ structure.t = "obj"
    /\ HasKey(structure, "questions")
    /\ DictGet(structure, "questions", None) = JList(<<>>)

\* the structure is a survey with a question of fewer than two options
HasShortQuestion(structure) ==
    /\ structure.t = "obj"
    /\ HasKey(structure, "questions")
    /\ DictGet(structure, "questions", None).t = "list"
    /\ \E i \in 1..Len(DictGet(structure, "questions", None).l) :
         LET question == DictGet(structure, "questions", None).l[i]
         IN  /\ question.t = "obj"
             /\ HasKey(question, "options")
             /\ DictGet(question, "options", None).t = "list"
             /\ Len(DictGet(question, "options", None).l) < 2

\* the structures of the surveys the store holds
StoredStructures ==
    {json_loads(survey_collection[i].document) : i \in 1..Len(survey_collection)}

\* C1: a create_survey that succeeds on a valid structure returns an
\* identity under which display_survey, served next, finds a survey equal to
\* that structure (title, description, questions and options in order).
C1_RoundTrip ==
    (/\ last.op = "create_survey"
     /\ last.status = 200
     /\ validate_survey_structure(extract_json_like(last.llm_response)))
    => LET r == display_survey_response(last.body.survey_id, TRUE)
       IN  /\ r.status = 200
           /\ r.body.survey_id = last.body.survey_id
           /\ r.body.survey = extract_json_like(last.llm_response)

C1_Witness ==
    /\ last.op = "create_survey"
    /\ last.status = 200
    /\ validate_survey_structure(extract_json_like(last.llm_response))
    /\ Len(survey_collection) = 2

\* C2: a create_survey whose survey structure has an empty question
\* sequence fails with a validation error (400), and no survey with an empty
\* question sequence is ever stored.
C2_EmptyQuestionsRejected ==
    /\ (/\ last.op = "create_survey"
        /\ last.store_ok
        /\ HasEmptyQuestions(extract_json_like(last.llm_response)))
       => last.status = 400
    /\ \A structure \in StoredStructures : ~HasEmptyQuestions(structure)

\* C3: a create_survey whose survey structure has a question with fewer
\* than two options fails with a validation error (400), and no survey with
\* such a question is ever stored.
C3_ShortQuestionRejected ==
    /\ (/\ last.op = "create_survey"
        /\ last.store_ok
        /\ HasShortQuestion(extract_json_like(last.llm_response)))
       => last.status = 400
    /\ \A structure \in StoredStructures : ~HasShortQuestion(structure)

\* the responses of a get_survey_responses body, without their timestamps
ListedResponses(body) ==
    {[response_id |-> body.responses[i].response_id,
      answers |-> body.responses[i].answers] : i \in 1..Len(body.responses)}

\* the responses added under survey_id
AddedUnder(survey_id) ==
    {[response_id |-> a.response_id, answers |-> a.answers] :
        a \in {x \in added : x.survey_id = survey_id}}

\* C4: get_survey_responses returns exactly the responses accepted under
\* the survey identity asked for, each once and with the answers submitted,
\* and none accepted under another identity.
C4_Isolation ==
    (last.op = "get_survey_responses" /\ last.status = 200)
    => /\ ListedResponses(last.body) = AddedUnder(last.req.survey_id)
       /\ Len(last.body.responses) = Cardinality(AddedUnder(last.req.survey_id))

C4_Witness ==
    /\ last.op = "get_survey_responses"
    /\ last.status = 200
    /\ AddedUnder(last.req.survey_id) # {}
    /\ \E a \in added : a.survey_id # last.req.survey_id

\* C5: get_survey_responses on an identity under which no response was
\* accepted, the identity of a survey or not, answers 200 with an empty
\* sequence whenever the storage layer itself did not fail.
C5_EmptyNotError ==
    (/\ last.op = "get_survey_responses"
     /\ last.store_ok
     /\ AddedUnder(last.req.survey_id) = {})
    => /\ last.status = 200
       /\ last.body.responses = <<>>

C5_Witness ==
    /\ last.op = "get_survey_responses"
    /\ last.store_ok
    /\ last.req.survey_id \notin Ids(survey_collection)
    /\ AddedUnder(last.req.survey_id) = {}
    /\ added # {}

\* C6: display_survey on an identity no survey was stored under answers
\* 404, never 500, whenever the storage layer itself did not fail.
C6_NotFound ==
    (/\ last.op = "display_survey"
     /\ last.store_ok
     /\ last.req.survey_id \notin Ids(survey_collection))
    => last.status = 404

C6_Witness ==
    /\ last.op = "display_survey"
    /\ last.store_ok
    /\ last.req.survey_id \notin Ids(survey_collection)
    /\ survey_collection # <<>>

\* C7: submit_survey_response with non-empty answers under an identity of
\* no stored survey succeeds, and get_survey_responses for that identity
\* then returns the response with its answers.
C7_PermissiveForeignKey ==
    (/\ last.op = "submit_survey_response"
     /\ AnswersOf(last.req.data) # JObj(<<>>)
     /\ last.req.survey_id \notin Ids(survey_collection)
     /\ last.store_ok /\ last.emit_ok)
    => /\ last.status = 200
       /\ \A results \in Orders(GetWhereSurvey(response_collection, last.req.survey_id)) :
            LET r == get_survey_responses_response(last.req.survey_id, results, TRUE)
            IN  /\ r.status = 200
                /\ [response_id |-> last.body.response_id,
                    answers |-> AnswersOf(last.req.data)] \in ListedResponses(r.body)

C7_Witness ==
    /\ last.op = "submit_survey_response"
    /\ last.status = 200
    /\ last.req.survey_id \notin Ids(survey_collection)
    /\ Len(response_collection) = 2

\* C8: a submit_survey_response whose answers are empty or missing is
\* answered 400, and the step changes neither the responses collection nor
\* the notifications emitted.
C8_EmptyAnswersRejected ==
    [][(/\ last'.op = "submit_survey_response"
        /\ AnswersOf(last'.req.data) = JObj(<<>>))
       => (/\ last'.status = 400
           /\ response_collection' = response_collection
           /\ emitted' = emitted)]_vars

C8_Witness ==
    /\ last.op = "submit_survey_response"
    /\ AnswersOf(last.req.data) = JObj(<<>>)
    /\ last.status = 400
    /\ response_collection # <<>>

\* C9: a create_survey whose prompt is missing, empty or whitespace only is
\* answered 400 without the LLM being invoked, and the step changes neither
\* the surveys collection nor the notifications emitted.
C9_EmptyPromptRejected ==
    [][(/\ last'.op = "create_survey"
        /\ \A i \in 1..Len(PromptOf(last'.req)) : PromptOf(last'.req)[i] \in Whitespace)
       => (/\ last'.status = 400
           /\ last'.llm_response = NotInvoked
           /\ survey_collection' = survey_collection
           /\ emitted' = emitted)]_vars

C9_Witness ==
    /\ last.op = "create_survey"
    /\ PromptOf(last.req) # <<>>
    /\ \A i \in 1..Len(PromptOf(last.req)) : PromptOf(last.req)[i] \in Whitespace
    /\ last.status = 400
    /\ survey_collection # <<>>

\* the surveys of a get_recent_surveys body are in descending order of
\* created_at, equal created_at in the order dir (1: ascending, -1:
\* descending) of the identities
OrderedWithTieBreak(body, dir) ==
    \A i \in 1..Len(body) : \A j \in 1..Len(body) :
      i < j => \/ body[i].created_at > body[j].created_at
               \/ /\ body[i].created_at = body[j].created_at
                  /\ dir * body[i].survey_id < dir * body[j].survey_id

\* C10: get_recent_surveys returns all stored surveys in descending order
\* of created_at with the identity as the tie-break, the same sequence in
\* whatever order the store returns the records.
C10_TotalOrder ==
    (last.op = "get_recent_surveys" /\ last.status = 200)
    => /\ {last.body[i].survey_id : i \in 1..Len(last.body)} = Ids(survey_collection)
       /\ Len(last.body) = Len(survey_collection)
       /\ \E dir \in {1, -1} : OrderedWithTieBreak(last.body, dir)
       /\ \A results \in Orders(survey_collection) :
            get_recent_surveys_response(results, TRUE).body = last.body

\* C11: a get_recent_surveys step changes no collection and emits nothing,
\* and when it follows another get_recent_surveys directly (no write in
\* between) and both answer 200, the two sequences are identical.
C11_Idempotent ==
    [][last'.op = "get_recent_surveys"
       => (/\ survey_collection' = survey_collection
           /\ response_collection' = response_collection
           /\ individual_analysis_collection' = individual_analysis_collection
           /\ emitted' = emitted
           /\ (last.op = "get_recent_surveys" /\ last.status = 200
                                              /\ last'.status = 200)
              => last'.body = last.body)]_vars

\* the records of a collection have pairwise distinct identities
UniqueIds(collection) ==
    \A i, j \in 1..Len(collection) :
      collection[i].id = collection[j].id => i = j

\* every record of after that before does not hold was added under an
\* identity before holds no record of
WriteOnce(before, after) ==
    \A i \in 1..Len(after) :
      i > Len(before) => after[i].id \notin Ids(before)

\* C12: whatever the interleaving of concurrent create_survey,
\* submit_survey_response and submit_individual_analysis requests, after
\* every step no two records of a collection share an identity, and a step
\* that adds a record adds it under an identity that held no record.
C12_UniqueWriteOnce ==
    [][/\ UniqueIds(survey_collection')
       /\ UniqueIds(response_collection')
       /\ UniqueIds(individual_analysis_collection')
       /\ WriteOnce(survey_collection, survey_collection')
       /\ WriteOnce(response_collection, response_collection')
       /\ WriteOnce(individual_analysis_collection,
                    individual_analysis_collection')]_vars

C12_Witness ==
    /\ \A th \in Threads : threads[th].pc = "add" /\ threads[th].op = "create_survey"
    /\ \A th \in Threads : threads[th].id \notin Ids(survey_collection)

\* after holds every record of before, in place and unchanged
Grows(before, after) ==
    /\ Len(after) >= Len(before)
    /\ \A i \in 1..Len(before) : after[i] = before[i]

\* C13: no step of any route removes or changes a record: every record a
\* collection holds is still there after the step, with the same identity,
\* document and metadata.
C13_Immutable ==
    [][/\ Grows(survey_collection, survey_collection')
       /\ Grows(response_collection, response_collection')
       /\ Grows(individual_analysis_collection,
                individual_analysis_collection')]_vars

C13_Witness ==
    /\ Len(response_collection) = 1
    /\ Len(individual_analysis_collection) = 1
    /\ last.op = "analyze_survey_responses"
    /\ last.status = 200

\* every member of the analysis is a member of the metadata
HoldsPayload(metadata, analysis) ==
    \A i \in 1..Len(analysis.m) :
      \E j \in 1..Len(metadata) : metadata[j] = analysis.m[i]

\* the step added exactly one record, under the fresh identity the response
\* returns, that holds the text and the payload
OneAnalysisAdded(text, analysis) ==
    /\ last'.status = 200
    /\ last'.body.id \notin Ids(individual_analysis_collection)
    /\ Len(individual_analysis_collection') = Len(individual_analysis_collection) + 1
    /\ Grows(individual_analysis_collection, individual_analysis_collection')
    /\ LET record == individual_analysis_collection'[Len(individual_analysis_collection')]
       IN  /\ record.id = last'.body.id
           /\ record.document = strip(text)
           /\ HoldsPayload(record.metadata, analysis)

\* the step answered 400 without calling the LLM and added nothing
AnalysisRefused ==
    /\ last'.status = 400
    /\ last'.llm_response = NotInvoked
    /\ individual_analysis_collection' = individual_analysis_collection

Answered == \E th \in Threads : threads[th] # Done /\ threads'[th] = Done

\* the response is the success of a route that notifies
NotifyingSuccess(response) ==
    /\ response.op \in {"create_survey", "submit_survey_response"}
    /\ response.status = 200

\* the kind of event a route publishes and the identity the event carries
EventOf(response) ==
    IF response.op = "create_survey" THEN "new_survey" ELSE "new_response"
IdentityOf(response) ==
    IF response.op = "create_survey"
    THEN response.body.survey_id ELSE response.req.survey_id

\* the record the response reports is in its collection after the step
Persisted(response) ==
    IF response.op = "create_survey"
    THEN response.body.survey_id \in Ids(survey_collection')
    ELSE response.body.response_id \in Ids(response_collection')

\* C15: a step that answers create_survey or submit_survey_response with
\* 200 publishes exactly one event, new_survey or new_response, that
\* carries the survey identity, the record being persisted; the event is
\* pushed to every client connected at that step and to no other; any other
\* step (a request refused, an add that raised, a request still running, a
\* client connecting or leaving) publishes and pushes nothing.
C15_NotifiedOnSuccess ==
    [][IF Answered /\ NotifyingSuccess(last')
       THEN /\ Len(emitted') = Len(emitted) + 1
            /\ SubSeq(emitted', 1, Len(emitted)) = emitted
            /\ emitted'[Len(emitted')].event = EventOf(last')
            /\ emitted'[Len(emitted')].payload.survey_id = IdentityOf(last')
            /\ Persisted(last')
            /\ \A c \in Clients :
                 received'[c] = IF c \in connected
                                THEN Append(received[c], emitted'[Len(emitted')])
                                ELSE received[c]
       ELSE /\ emitted' = emitted
            /\ received' = received]_vars

C15_Witness ==
    /\ NotifyingSuccess(last)
    /\ Len(emitted) = 2
    /\ connected = {"dashboard"}
    /\ received["dashboard"] = <<emitted[2]>>
    /\ received["monitor"] = <<>>
    /\ emitted[2].payload.survey_id = IdentityOf(last)

\* C16: a client that is not connected when a step begins, one that connects
\* in that step included, is pushed nothing by it; and what a step pushes to
\* a client is the one event published in that step, never an earlier one.
C16_NoReplay ==
    [][\A c \in Clients :
         /\ c \notin connected => received'[c] = received[c]
         /\ received'[c] # received[c]
            => /\ Len(emitted') = Len(emitted) + 1
               /\ received'[c] = Append(received[c], emitted'[Len(emitted')])]_vars

C16_Witness ==
    /\ Len(emitted) = 2
    /\ connected = Clients
    /\ received["dashboard"] = <<emitted[2]>>
    /\ received["monitor"] = <<>>

\* C17: a create_survey or submit_survey_response whose add succeeded and
\* whose emit raised is still answered 200.
C17_PublishNeverFails ==
    (/\ last.op \in {"create_survey", "submit_survey_response"}
     /\ last.store_ok
     /\ ~last.emit_ok)
    => last.status = 200

\* C18: a step that answers create_survey, submit_survey_response or
\* submit_individual_analysis with an error leaves the three collections
\* exactly as they were.
C18_NoPartialSuccess ==
    [][(/\ Answered
        /\ last'.op \in {"create_survey", "submit_survey_response",
                         "submit_individual_analysis"}
        /\ last'.status # 200)
       => /\ survey_collection' = survey_collection
          /\ response_collection' = response_collection
          /\ individual_analysis_collection' = individual_analysis_collection]_vars

\* what made the request fail: its own content (validation), the storage
\* layer raising (storage), llm.invoke raising (llm)
Cause(response) ==
    IF response.status = 400 THEN "validation"
    ELSE IF ~response.store_ok THEN "storage"
    ELSE IF response.llm_response = LLMException THEN "llm"
    ELSE "other"

\* C19: two requests of the same route that fail for different causes among
\* validation, storage and llm get different responses (status and body).
C19_DistinctErrors ==
    [][(/\ last.op \in {"create_survey", "analyze_survey_responses",
                        "submit_individual_analysis"}
        /\ last'.op = last.op
        /\ Cause(last) # "other"
        /\ Cause(last') # "other"
        /\ Cause(last') # Cause(last))
       => <<last'.status, last'.body>> # <<last.status, last.body>>]_vars

\* C20: a create_survey, analyze_survey_responses or
\* submit_individual_analysis whose completion holds no JSON object that can
\* be extracted is answered with an error that contains the completion.
C20_RawTextPreserved ==
    (/\ last.op \in {"create_survey", "analyze_survey_responses",
                     "submit_individual_analysis"}
     /\ last.llm_response # NotInvoked
     /\ last.llm_response # LLMException
     /\ extract_json_like(last.llm_response) = None)
    => /\ last.status >= 400
       /\ "raw_response" \in DOMAIN last.body
       /\ last.body.raw_response = last.llm_response

\* the completion of the response holds nothing the route can use
NothingExtracted(response) ==
    \/ extract_json_like(response.llm_response) = None
    \/ /\ response.op = "create_survey"
       /\ ~HasKey(extract_json_like(response.llm_response), "questions")

ReturnedSurveys ==
    {emitted[i].payload.survey_id :
        i \in {j \in 1..Len(emitted) : emitted[j].event = "new_survey"}}

\* C22: with create_survey requests on concurrent threads, a
\* get_recent_surveys that is served after a create_survey returned 200
\* lists the survey of that identity, and a display_survey of that identity
\* served after it finds the survey (the storage layer not failing).
C22_VisibleOnceReturned ==
    [][/\ (last'.op = "get_recent_surveys" /\ last'.status = 200)
          => \A id \in ReturnedSurveys :
               \E i \in 1..Len(last'.body) : last'.body[i].survey_id = id
       /\ (/\ last'.op = "display_survey"
           /\ last'.store_ok
           /\ last'.req.survey_id \in ReturnedSurveys)
          => /\ last'.status = 200
             /\ last'.body.survey_id = last'.req.survey_id]_vars

C22_Witness ==
    /\ last.op = "get_recent_surveys"
    /\ last.status = 200
    /\ Len(last.body) = 1
    /\ last.body[1].survey_id \in ReturnedSurveys
    /\ \E th \in Threads :
         /\ threads[th].pc = "add"
         /\ threads[th].op = "create_survey"
         /\ threads[th].id # last.body[1].survey_id

\* the elements of a sequence are pairwise distinct
Distinct(seq) == \A i, j \in 1..Len(seq) : seq[i] = seq[j] => i = j

\* every question of the structure has at least two options, all distinct,
\* and no two questions have the same text
QuestionInvariant(structure) ==
    LET questions == DictGet(structure, "questions", JList(<<>>)).l
    IN  /\ \A i \in 1..Len(questions) :
             LET options == DictGet(questions[i], "options", JList(<<>>)).l
             IN  Len(options) >= 2 /\ Distinct(options)
        /\ Distinct([i \in 1..Len(questions) |->
                        DictGet(questions[i], "question", None)])

\* C23: every question of every survey the store holds has at least two
\* distinct options, and the question texts of a survey are pairwise
\* distinct.
C23_QuestionInvariant ==
    \A structure \in StoredStructures : QuestionInvariant(structure)

\* the QR code last served is the one of a survey the store holds, and
\* record is that survey
QrServedFor(record) ==
    /\ last.op = "survey_qr"
    /\ last.status = 200
    /\ record.id = last.req.survey_id

\* C24: every persisted survey has its primary key as metadata survey_id and
\* the host URL followed by survey/ and that key as public_url, and the QR
\* code served for the identity of a persisted survey encodes exactly the
\* public_url of that survey.
C24_LocatorFromIdentity ==
    \A i \in 1..Len(survey_collection) :
      LET record == survey_collection[i] IN
      /\ record.metadata.survey_id = record.id
      /\ \E url_root \in HostUrls :
            record.metadata.public_url = <<url_root, "survey/", record.id>>
      /\ QrServedFor(record) => last.body.qr_img = record.metadata.public_url
ReadOnlyRoutes ==
    {"display_survey", "survey_qr", "get_survey_responses", "get_recent_surveys",
     "analyze_survey_responses"}

\* the request being answered asks for the analysis of a survey that has no
\* responses, the storage layer up
AnalyzesNothing ==
    /\ last'.op = "analyze_survey_responses"
    /\ "form_id" \in DOMAIN last'.req
    /\ last'.store_ok
    /\ GetWhereSurvey(response_collection, last'.req.form_id) = <<>>

\* C25: a step that answers a request to display_survey, survey_qr,
\* get_survey_responses, get_recent_surveys or analyze_survey_responses,
\* with whatever status, leaves the three collections as they were and
\* emits nothing; analyze_survey_responses answers 404 without a call of the
\* LLM when the survey has no responses, and the analysis it returns with a
\* 200 is in no collection afterwards.
C25_ReadOnly ==
    [][last'.op \in ReadOnlyRoutes =>
         /\ UNCHANGED <<survey_collection, response_collection,
                        individual_analysis_collection, emitted, received>>
         /\ AnalyzesNothing =>
               last'.status = 404 /\ last'.llm_response = NotInvoked
         /\ (last'.op = "analyze_survey_responses" /\ last'.status = 200) =>
               \A i \in 1..Len(individual_analysis_collection') :
                 individual_analysis_collection'[i].document # json_dumps(last'.body.analysis)]_vars

\* an analysis was returned for a survey with responses while every
\* collection holds a record and a notification was emitted before
C25_Witness ==
    /\ last.op = "analyze_survey_responses"
    /\ last.status = 200
    /\ emitted # <<>>
    /\ survey_collection # <<>>
    /\ response_collection # <<>>
    /\ individual_analysis_collection # <<>>
\* C26: every record of individual_analysis_collection has the stripped text
\* that was submitted (its document) as metadata user_input and a time of
\* the clock, the time of its submission, as metadata timestamp, whatever
\* keys the payload of the LLM has.
C26_FieldsNotOverwritten ==
    \A i \in 1..Len(individual_analysis_collection) :
      LET record == individual_analysis_collection[i]
          metadata == JObj(record.metadata)
          user_input == DictGet(metadata, "user_input", None)
          timestamp == DictGet(metadata, "timestamp", None)
      IN  /\ user_input.t = "text" /\ user_input.s = record.document
          /\ timestamp.t = "int" /\ timestamp.n \in 0..now
\* C27: the mapping get_survey_list returns, and the one the Survey Analysis
\* page builds, has one entry for each survey of the list /recent_surveys
\* returned, and every survey identity of the list is the value of some
\* display name, also when two surveys have the same title and the same
\* creation time.
C27_SelectionLossless ==
    last.op \in {"get_survey_list", "survey_analysis_page"} =>
      LET surveys_data == last.body.surveys_data
          options == last.body.survey_options
      IN  /\ Len(options) = Len(surveys_data)
          /\ \A i \in 1..Len(surveys_data) :
                \E j \in 1..Len(options) : options[j].v = surveys_data[i].survey_id
\* the step is the st.rerun() the auto-refresh of the Dashboard schedules
DashboardReruns ==
    /\ page.name = "Dashboard"
    /\ page.auto_refresh
    /\ page.pc = "sleep"
    /\ page'.pc = "start"
    /\ page'.name = page.name
    /\ page'.auto_refresh = page.auto_refresh

\* C28: with the auto-refresh checkbox of the Dashboard ticked, a run of the
\* page has fetched and rendered the survey and response figures by the
\* time it schedules the next rerun, so the page never reruns without
\* having rendered.
C28_RenderBeforeRerun ==
    [][DashboardReruns => page.rendered]_vars
====
